---------------------------- MODULE Spec2Model ----------------------------
(***************************************************************************)
(* A model of the husky-robotics spectroscopy code: the processor          *)
(* (processor.py), the two applications (spectrometer_app.py,              *)
(* run_with_dashboard.py) and the collaborators they drive.                *)
(*                                                                         *)
(* Numbers.  Python floats are modelled as exact rationals, a record       *)
(* [n |-> numerator, d |-> denominator] with d >= 0.  d = 0 stands for a   *)
(* non-finite float: n > 0 is +inf, n < 0 is -inf, n = 0 is nan.           *)
(***************************************************************************)
EXTENDS Integers, Sequences, FiniteSets, TLC

VARIABLES
    app,            \* which object was constructed
    maps,           \* the interp1d objects built so far, by identity
    calibration,    \* processor.calibration: 0 for None, else an identity
    op,             \* the method called last
    arg,            \* its arguments
    raised,         \* the exception it raised, or NoError
    ret,            \* the value it returned, or None
    plotter,        \* the application's RealtimeSpectrumPlotter, or None
    logger,         \* the application's SpectroscopyLogger, or None
    latest_results, \* web_dashboard.latest_results
    session_stats,  \* web_dashboard.session_stats
    peak_wl,        \* peak_wavelengths handed to detect_biosignatures
    peak_int,       \* peak_intensities handed to detect_biosignatures
    analysis,       \* the dict detect_biosignatures returned, or None
    stages,         \* the calls the last analyze_sample made, in order
    memory,         \* the array buffers allocated so far, by identity
    input,          \* the array a stage was handed: its buffer and row
    output,         \* the array the stage returned, or None
    snapshot,       \* what the returned array held when it was returned
    succeeded,      \* log_measurement calls of the session that returned
    update,         \* update_results on the main thread: where it stands
    view,           \* get_stats on a server thread: what it has read
    completed       \* the results of the update_results calls that returned

procVars == <<maps, calibration>>
callVars == <<op, arg, raised, ret>>
outVars == <<plotter, logger, latest_results, session_stats>>
classifyVars == <<peak_wl, peak_int, analysis>>
bufVars == <<memory, input, output, snapshot>>
dashVars == <<update, view, completed>>
auxVars == <<bufVars, succeeded, dashVars>>
vars == <<app, procVars, callVars, outVars, classifyVars, stages, auxVars>>

\* Python's None where a record is expected
None == [none |-> TRUE]

IsNone(v) == DOMAIN v = {"none"}

(***************************************************************************)
(* Bounds of the model.                                                    *)
(***************************************************************************)
MaxPeaks == 2       \* longest peak list handed to the classifier
ProbeDen == 10000   \* a probe "just inside" a bound b is b +- 1/ProbeDen
MaxMaps == 2        \* interp1d objects built in one run
MaxHeight == 2      \* rows of a frame
ShortWidth == 3     \* columns of a frame narrower than the smoothing window
MaxWidth == 11      \* columns of the widest frame
MaxFrames == 1      \* frames an application carries through to its outputs
MaxProfile == 4     \* samples of the longest spectrum searched for peaks
MaxBuffers == 3     \* array buffers allocated in one run
MaxLogged == 3      \* records in one logger session
MaxNotes == 2       \* notes in one logger session
MaxUpdates == 2     \* update_results calls made by the main thread

(***************************************************************************)
(* Numbers.                                                                *)
(***************************************************************************)
Num(k) == [n |-> k, d |-> 1]

\* a < b on floats; false whenever nan is involved, as in Python.
Lt(a, b) == a.n * b.d < b.n * a.d

Abs(k) == IF k < 0 THEN -k ELSE k

Sign(k) == IF k > 0 THEN 1 ELSE IF k < 0 THEN -1 ELSE 0

RECURSIVE Gcd(_, _)
Gcd(a, b) == IF b = 0 THEN a ELSE Gcd(b, a % b)

\* The float n/d; equal floats are equal records.
Frac(n, d) ==
    IF d = 0 THEN [n |-> Sign(n), d |-> 0]
    ELSE LET g == Gcd(Abs(n), Abs(d)) * Sign(d)
         IN  [n |-> n \div g, d |-> d \div g]

\* a - b on finite floats
Minus(a, b) == Frac(a.n * b.d - b.n * a.d, a.d * b.d)

NaN == Frac(0, 0)

Range(s) == {s[i] : i \in DOMAIN s}

\* an array of n equal samples
flat(n, level) == [i \in 1..n |-> Num(level)]

zeros(n) == flat(n, 0)

RECURSIVE SumSeq(_)
SumSeq(s) == IF s = <<>> THEN 0 ELSE Head(s) + SumSeq(Tail(s))

NoError == "NoError"

Returns(v) == [raised |-> NoError, ret |-> v]

Raises(e) == [raised |-> e, ret |-> None]

SeqsUpTo(S, k) == UNION {[1..m -> S] : m \in 0..k}


(***************************************************************************)
(* SpectrometerProcessor, processor.py.                                    *)
(***************************************************************************)
\* __init__: self.calibration = None
NoCalibration == 0

\* np.mean(image_2d, axis=0): the mean of every column
column(image_2d, c) == [r \in DOMAIN image_2d |-> image_2d[r][c]]

width(image_2d) == Len(image_2d[1])

mean_rows(image_2d) ==
    [c \in 1..width(image_2d) |->
        Frac(SumSeq(column(image_2d, c)), Len(image_2d))]

\* np.median(image_2d, axis=0): the middle of every sorted column, the mean
\* of the two middle values when the number of rows is even
RECURSIVE insert_value(_, _)
insert_value(v, sorted) ==
    IF sorted = <<>> THEN <<v>>
    ELSE IF v < Head(sorted) THEN <<v>> \o sorted
    ELSE <<Head(sorted)>> \o insert_value(v, Tail(sorted))

RECURSIVE sort_values(_)
sort_values(s) ==
    IF s = <<>> THEN <<>> ELSE insert_value(Head(s), sort_values(Tail(s)))

median_rows(image_2d) ==
    [c \in 1..width(image_2d) |->
        LET col == sort_values(column(image_2d, c))
            h   == Len(col)
        IN  IF h % 2 = 1 THEN Num(col[(h \div 2) + 1])
            ELSE Frac(col[h \div 2] + col[(h \div 2) + 1], 2)]

\* image_2d[image_2d.shape[0] // 2, :]
center_row(image_2d) ==
    [c \in 1..width(image_2d) |-> Num(image_2d[(Len(image_2d) \div 2) + 1][c])]

extract_spectrum_default_average(image_2d, method) ==
    IF method = "median" THEN Returns([spectrum |-> median_rows(image_2d)])
    ELSE IF method = "center_row" THEN Returns([spectrum |-> center_row(image_2d)])
    ELSE Returns([spectrum |-> mean_rows(image_2d)])

extract_spectrum(image_2d, method) ==
    IF method = "average" THEN Returns([spectrum |-> mean_rows(image_2d)])
    ELSE IF method = "median" THEN Returns([spectrum |-> median_rows(image_2d)])
    ELSE IF method = "center_row" THEN Returns([spectrum |-> center_row(image_2d)])
    ELSE Raises("ValueError: Unknown method")

\* interp1d(pixels, wavelengths, kind='linear', fill_value='extrapolate').
\* assume_sorted is left False, so the points are sorted by x with a stable
\* sort; nothing rejects a repeated x.  An empty list is refused.
RECURSIVE insert_pair(_, _)
insert_pair(a, sorted) ==
    IF sorted = <<>> THEN <<a>>
    ELSE IF a[1] < Head(sorted)[1] THEN <<a>> \o sorted
    ELSE <<Head(sorted)>> \o insert_pair(a, Tail(sorted))

RECURSIVE sort_by_pixel(_)
sort_by_pixel(pairs) ==
    IF pairs = <<>> THEN <<>>
    ELSE insert_pair(pairs[Len(pairs)],
                     sort_by_pixel(SubSeq(pairs, 1, Len(pairs) - 1)))

interp1d(pixel_wavelength_pairs) ==
    LET sorted == sort_by_pixel(pixel_wavelength_pairs)
    IN  IF Len(sorted) = 0
        THEN Raises("ValueError: x and y arrays must have at least 1 entries")
        ELSE Returns([x |-> [i \in DOMAIN sorted |-> sorted[i][1]],
                      y |-> [i \in DOMAIN sorted |-> sorted[i][2]]])

\* interp1d._call_linear at one x_new
call_linear_clamped(f, x_new) ==
    LET n == Len(f.x)
        k == CHOOSE i \in 1..n :
                 \/ i = n
                 \/ x_new < f.x[i + 1]
    IN  IF x_new <= f.x[1] THEN Num(f.y[1])
        ELSE IF x_new >= f.x[n] THEN Num(f.y[n])
        ELSE Frac((f.y[k + 1] - f.y[k]) * (x_new - f.x[k])
                      + f.y[k] * (f.x[k + 1] - f.x[k]),
                  f.x[k + 1] - f.x[k])

searchsorted(x, x_new) == Cardinality({i \in DOMAIN x : x[i] < x_new})

clip(v, lo, hi) ==
    LET raised_to_lo == IF v < lo THEN lo ELSE v
    IN  IF raised_to_lo > hi THEN hi ELSE raised_to_lo

call_linear(f, x_new) ==
    LET n     == Len(f.x)
        hi    == clip(searchsorted(f.x, x_new), 1, n - 1)
        lo    == hi - 1
        x_lo  == f.x[(lo % n) + 1]
        x_hi  == f.x[(hi % n) + 1]
        y_lo  == f.y[(lo % n) + 1]
        y_hi  == f.y[(hi % n) + 1]
        dx    == x_hi - x_lo
        dy    == y_hi - y_lo
    IN  IF dx = 0
        THEN Frac(Sign(dy) * Sign(x_new - x_lo), 0)
        ELSE Frac(dy * (x_new - x_lo) + y_lo * dx, dx)

\* apply_calibration, with cal the object self.calibration refers to
apply_calibration(heap, cal, spectrum_raw) ==
    IF cal = NoCalibration
    THEN Raises("ValueError: No calibration loaded")
    ELSE Returns([wavelengths |->
                      [i \in DOMAIN spectrum_raw |-> call_linear(heap[cal], i - 1)],
                  spectrum |-> spectrum_raw])

\* np.polyval(np.polyfit(x, spectrum, degree), x) with x = 0..N-1.  np.polyfit
\* refuses a negative degree and an empty x and nothing else: a degree of N
\* or more only draws a RankWarning.  lstsq is the least-squares solver's
\* answer.  With N = 1 and degree >= 1 the columns of the design matrix that
\* are all 0 are divided by their norm 0, and the solver, handed nan, either
\* reports no convergence or hands nan back.
polyfit_inverted_check(spectrum, degree, lstsq) ==
    IF degree < Len(spectrum)
    THEN Raises("ValueError: degree must be less than the spectrum length")
    ELSE Returns(lstsq.curve)

polyfit_polyval(spectrum, degree, lstsq) ==
    IF degree < 0
    THEN Raises("ValueError: expected deg >= 0")
    ELSE IF Len(spectrum) = 0
    THEN Raises("TypeError: expected non-empty vector for x")
    ELSE IF Len(spectrum) = 1 /\ degree >= 1
    THEN IF lstsq.converged
         THEN Returns([i \in DOMAIN spectrum |-> NaN])
         ELSE Raises("LinAlgError: SVD did not converge in Linear Least Squares")
    ELSE Returns(lstsq.curve)

\* signal.medfilt(spectrum, kernel_size): the median of the kernel_size
\* samples around each one, the spectrum padded with zeros; an even
\* kernel_size, 0 included, is refused.
RECURSIVE insert_float(_, _)
insert_float(v, sorted) ==
    IF sorted = <<>> THEN <<v>>
    ELSE IF Lt(v, Head(sorted)) THEN <<v>> \o sorted
    ELSE <<Head(sorted)>> \o insert_float(v, Tail(sorted))

RECURSIVE sort_floats(_)
sort_floats(s) ==
    IF s = <<>> THEN <<>> ELSE insert_float(Head(s), sort_floats(Tail(s)))

padded(spectrum, p) == IF p \in DOMAIN spectrum THEN spectrum[p] ELSE Num(0)

medfilt(spectrum, kernel_size) ==
    IF kernel_size % 2 # 1
    THEN Raises("ValueError: Each element of kernel_size should be odd")
    ELSE Returns([i \in DOMAIN spectrum |->
                    sort_floats([j \in 1..kernel_size |->
                        padded(spectrum, i - (kernel_size \div 2) + j - 1)])
                            [(kernel_size \div 2) + 1]])

\* baseline_correction; lstsq is what the least-squares solver answers
baseline_correction(spectrum, method, degree, lstsq) ==
    IF method = "polynomial" THEN
        LET baseline == polyfit_polyval(spectrum, degree, lstsq) IN
        IF baseline.raised # NoError THEN baseline
        ELSE Returns([spectrum |->
                 [i \in DOMAIN spectrum |-> Minus(spectrum[i], baseline.ret[i])]])
    ELSE IF method = "rolling_minimum" THEN
        LET window   == Len(spectrum) \div 20
            baseline == medfilt(spectrum, window)
        IN  IF baseline.raised # NoError THEN baseline
            ELSE Returns([spectrum |->
                     [i \in DOMAIN spectrum |-> Minus(spectrum[i], baseline.ret[i])]])
    ELSE Raises("ValueError: Unknown baseline method")

\* smooth_spectrum; savgol is what signal.savgol_filter(spectrum,
\* window_length, 3) does in its default mode 'interp': whether this release
\* takes an even window_length (older ones refuse it), and the filtered
\* spectrum it hands back.  The coefficients are computed, and polyorder
\* checked, before the window is compared with the spectrum.
polyorder == 3

smooth_spectrum(spectrum, window_length, savgol) ==
    IF polyorder >= window_length
    THEN Raises("ValueError: polyorder must be less than window_length")
    ELSE IF window_length % 2 = 0 /\ ~savgol.accepts_even
    THEN Raises("ValueError: window_length must be odd")
    ELSE IF window_length > Len(spectrum)
    THEN Raises("ValueError: window_length must be less than or equal to the size of x")
    ELSE Returns([spectrum |-> savgol.filtered])

\* signal.find_peaks(spectrum, prominence=prominence): the local maxima
\* (the middle sample of a flat top, rounded down), then the prominence of
\* each, then the ones whose prominence reaches the threshold.  Indices are
\* counted from 0 as in the library.
At(x, i) == x[i + 1]

RECURSIVE plateau_end(_, _, _)
plateau_end(x, i, i_ahead) ==
    IF i_ahead < Len(x) - 1 /\ At(x, i_ahead) = At(x, i)
    THEN plateau_end(x, i, i_ahead + 1)
    ELSE i_ahead

RECURSIVE local_maxima_from(_, _)
local_maxima_from(x, i) ==
    IF i >= Len(x) - 1 THEN <<>>
    ELSE IF Lt(At(x, i - 1), At(x, i)) THEN
        LET i_ahead == plateau_end(x, i, i + 1) IN
        IF Lt(At(x, i_ahead), At(x, i))
        THEN <<(i + i_ahead - 1) \div 2>> \o local_maxima_from(x, i_ahead + 1)
        ELSE local_maxima_from(x, i + 1)
    ELSE local_maxima_from(x, i + 1)

local_maxima_1d(x) == local_maxima_from(x, 1)

MinNum(a, b) == IF Lt(b, a) THEN b ELSE a

MaxNum(a, b) == IF Lt(a, b) THEN b ELSE a

\* the lowest sample met walking from the peak in direction step while the
\* samples do not exceed the peak
RECURSIVE lowest_towards(_, _, _, _, _)
lowest_towards(x, peak, i, step, lowest) ==
    IF i < 0 \/ i > Len(x) - 1 \/ Lt(At(x, peak), At(x, i)) THEN lowest
    ELSE lowest_towards(x, peak, i + step, step, MinNum(lowest, At(x, i)))

peak_prominence(x, peak) ==
    Minus(At(x, peak),
          MaxNum(lowest_towards(x, peak, peak, -1, At(x, peak)),
                 lowest_towards(x, peak, peak, 1, At(x, peak))))

RECURSIVE select_seq(_, _, _)
select_seq(x, peaks, prominence) ==
    IF peaks = <<>> THEN <<>>
    ELSE IF Lt(peak_prominence(x, Head(peaks)), Num(prominence))
    THEN select_seq(x, Tail(peaks), prominence)
    ELSE <<Head(peaks)>> \o select_seq(x, Tail(peaks), prominence)

find_peaks(wavelengths, spectrum, prominence) ==
    LET peak_indices == select_seq(spectrum, local_maxima_1d(spectrum), prominence)
    IN  Returns([peak_wavelengths |->
                     [k \in DOMAIN peak_indices |-> At(wavelengths, peak_indices[k])],
                 peak_intensities |->
                     [k \in DOMAIN peak_indices |-> At(spectrum, peak_indices[k])],
                 prominences |->
                     [k \in DOMAIN peak_indices |->
                         peak_prominence(spectrum, peak_indices[k])]])

(***************************************************************************)
(* detect_biosignatures, spectrometer_app.py:89-118.                       *)
(***************************************************************************)
\* any(lo < p < hi for p in ps): the generator is consumed front to back
\* and stops at the first hit.  lo < p < hi is (lo < p) and (p < hi).
any_between_first_only(lo, hi, ps) ==
    ps # <<>> /\ Lt(Num(lo), Head(ps)) /\ Lt(Head(ps), Num(hi))

RECURSIVE any_between(_, _, _)
any_between(lo, hi, ps) ==
    IF ps = <<>> THEN FALSE
    ELSE IF Lt(Num(lo), Head(ps)) /\ Lt(Head(ps), Num(hi)) THEN TRUE
    ELSE any_between(lo, hi, Tail(ps))

\* sum([a, b, c]) over booleans
sum_flags(a, b, c) ==
    (IF a THEN 1 ELSE 0) + (IF b THEN 1 ELSE 0) + (IF c THEN 1 ELSE 0)

has_chlorophyll_le(peak_wavelengths) ==
    \E i \in DOMAIN peak_wavelengths :
        LET p == peak_wavelengths[i] IN
        \/ ~Lt(p, Num(425)) /\ p.d > 0 /\ Lt(p, Num(435))
        \/ Lt(Num(655), p) /\ Lt(p, Num(665))

has_chlorophyll(peak_wavelengths) ==
    any_between(425, 435, peak_wavelengths)
        \/ any_between(655, 665, peak_wavelengths)

has_carotenoids(peak_wavelengths) == any_between(450, 550, peak_wavelengths)

has_organics_below_chlorophyll(peak_wavelengths) ==
    any_between(400, 425, peak_wavelengths)

has_organics(peak_wavelengths) == any_between(400, 450, peak_wavelengths)

verdict_swapped(indicators) ==
    IF indicators = 0 THEN
        [confidence |-> "none", interpretation |-> "No biosignatures detected"]
    ELSE IF indicators = 1 THEN
        [confidence |-> "low", interpretation |-> "Weak biosignature detected"]
    ELSE IF indicators = 2 THEN
        [confidence |-> "high",
         interpretation |-> "Strong biosignature pattern detected"]
    ELSE
        [confidence |-> "medium",
         interpretation |-> "Multiple biosignatures detected"]

\* the if / elif chain on indicators
verdict(indicators) ==
    IF indicators = 0 THEN
        [confidence |-> "none", interpretation |-> "No biosignatures detected"]
    ELSE IF indicators = 1 THEN
        [confidence |-> "low", interpretation |-> "Weak biosignature detected"]
    ELSE IF indicators = 2 THEN
        [confidence |-> "medium",
         interpretation |-> "Multiple biosignatures detected"]
    ELSE
        [confidence |-> "high",
         interpretation |-> "Strong biosignature pattern detected"]

detect_biosignatures(peak_wavelengths, peak_intensities) ==
    LET chl == has_chlorophyll(peak_wavelengths)
        car == has_carotenoids(peak_wavelengths)
        org == has_organics(peak_wavelengths)
        v   == verdict(sum_flags(chl, car, org))
    IN  [chlorophyll    |-> chl,
         carotenoids    |-> car,
         organics       |-> org,
         confidence     |-> v.confidence,
         interpretation |-> v.interpretation]

(***************************************************************************)
(* detect_biosignatures, run_with_dashboard.py:65-88: the same rules,      *)
(* written out a second time in the dashboard application.                 *)
(***************************************************************************)
dash_verdict(indicators) ==
    IF indicators = 0 THEN
        [confidence |-> "none", interpretation |-> "No biosignatures detected"]
    ELSE IF indicators = 1 THEN
        [confidence |-> "low", interpretation |-> "Weak biosignature detected"]
    ELSE IF indicators = 2 THEN
        [confidence |-> "medium",
         interpretation |-> "Multiple biosignatures detected"]
    ELSE
        [confidence |-> "high",
         interpretation |-> "Strong biosignature pattern detected"]

dash_detect_biosignatures(peak_wavelengths, peak_intensities) ==
    LET chl == any_between(425, 435, peak_wavelengths)
                   \/ any_between(655, 665, peak_wavelengths)
        car == any_between(450, 550, peak_wavelengths)
        org == any_between(400, 450, peak_wavelengths)
        v   == dash_verdict(sum_flags(chl, car, org))
    IN  [chlorophyll    |-> chl,
         carotenoids    |-> car,
         organics       |-> org,
         confidence     |-> v.confidence,
         interpretation |-> v.interpretation]

Apps == {"SpectrometerApp", "SpectrometerAppWithDashboard"}

\* self.detect_biosignatures(...) dispatches on the class of self
classify(a, peak_wavelengths, peak_intensities) ==
    IF a = "SpectrometerAppWithDashboard"
    THEN dash_detect_biosignatures(peak_wavelengths, peak_intensities)
    ELSE detect_biosignatures(peak_wavelengths, peak_intensities)

(***************************************************************************)
(* The collaborators: RealtimeSpectrumPlotter.update                       *)
(* (realtime_plotter.py), SpectroscopyLogger.log_measurement               *)
(* (datalogger.py), web_dashboard.update_results (web_dashboard.py).       *)
(* Timestamps and the files written are left out.                          *)
(***************************************************************************)
max_history == 10

new_plotter ==
    [line_current |-> None, peaks_current |-> None, spectrum_history |-> <<>>]

\* deque(maxlen=max_history).append
deque_append(q, v) ==
    IF Len(q) < max_history THEN Append(q, v) ELSE Append(Tail(q), v)

plotter_update(pl, wavelengths, spectrum, peaks) ==
    [line_current     |-> [wavelengths |-> wavelengths, spectrum |-> spectrum],
     peaks_current    |-> peaks,
     spectrum_history |->
         deque_append(pl.spectrum_history,
                      [wavelengths |-> wavelengths, spectrum |-> spectrum])]

\* d.get(key, default)
get(d, key, default) == IF key \in DOMAIN d THEN d[key] ELSE default

\* SpectroscopyLogger.session_log: the 'notes' key appears with the first
\* note, the 'end_time' key with end_session
new_logger ==
    [measurements |-> <<>>, has_notes |-> FALSE, notes |-> <<>>,
     ended |-> FALSE]

default_sample_id(measurement_id) == <<"sample_", measurement_id>>

\* sample ids that name a file in a directory that does not exist
Nested == {"lab/7"}

\* json.dump(self.session_log, ...) raises TypeError on a value that is no
\* dict, list, str, int, float, bool or None, such as a numpy scalar; a
\* dict holding one is modelled as a record with a field numpy.
json_encodable(session_log) ==
    \A i \in DOMAIN session_log.measurements :
        "numpy" \notin DOMAIN session_log.measurements[i].biosignature_analysis

\* _save_session_log
save_session_log(session_log) ==
    IF json_encodable(session_log) THEN NoError
    ELSE "TypeError: Object is not JSON serializable"

log_measurement_counts_after_append(lg, measurement_data, sample_id) ==
    LET measurement_id == Len(lg.measurements) + 2
        record == [measurement_id |-> measurement_id,
                   sample_id |-> <<sample_id>>,
                   peaks_detected |-> get(measurement_data, "peaks_detected", 0),
                   biosignature_analysis |->
                       get(measurement_data, "biosignature_analysis", <<>>)]
    IN  [raised |-> NoError, ret |-> [measurement_id |-> measurement_id],
         logger |-> [lg EXCEPT !.measurements = Append(@, record)]]

\* log_measurement: the record is appended once the arrays are on disk,
\* and the session log is saved after that
log_measurement(lg, measurement_data, sample_id) ==
    LET measurement_id == Len(lg.measurements) + 1
        sid == IF sample_id = "None"
               THEN default_sample_id(measurement_id)
               ELSE <<sample_id>>
        record == [measurement_id |-> measurement_id,
                   sample_id |-> sid,
                   peaks_detected |-> get(measurement_data, "peaks_detected", 0),
                   biosignature_analysis |->
                       get(measurement_data, "biosignature_analysis", <<>>)]
        writes == \/ {"wavelengths", "spectrum"} \subseteq DOMAIN measurement_data
                  \/ "raw_image" \in DOMAIN measurement_data
        logged == [lg EXCEPT !.measurements = Append(@, record)]
    IN  IF writes /\ sample_id \in Nested
        THEN [raised |-> "FileNotFoundError: No such file or directory",
              ret |-> None, logger |-> lg]
        ELSE IF save_session_log(logged) # NoError
        THEN [raised |-> save_session_log(logged), ret |-> None,
              logger |-> logged]
        ELSE [raised |-> NoError, ret |-> [measurement_id |-> measurement_id],
              logger |-> logged]

add_note(lg, note) ==
    LET noted == [lg EXCEPT !.has_notes = TRUE, !.notes = Append(@, note)] IN
    [raised |-> save_session_log(noted), ret |-> None, logger |-> noted]

end_session(lg) ==
    LET ended == [lg EXCEPT !.ended = TRUE] IN
    [raised |-> save_session_log(ended), ret |-> None, logger |-> ended]

new_session_stats ==
    [total_measurements |-> 0, high_confidence |-> 0,
     medium_confidence |-> 0, low_confidence |-> 0]

\* web_dashboard.py:74-87, statement by statement
store_latest == "latest_results = results"
count_measurement == "session_stats['total_measurements'] += 1"
read_confidence ==
    "confidence = results.get('biosignature_analysis', {}).get('confidence', 'none')"
count_confidence == "session_stats[confidence + '_confidence'] += 1"

update_results_counting_total_last ==
    <<store_latest, read_confidence, count_confidence, count_measurement>>

update_results_body ==
    <<store_latest, count_measurement, read_confidence, count_confidence>>

\* line 81: a result without an analysis, or an analysis without a
\* confidence, counts as 'none'
confidence_of(results) ==
    get(get(results, "biosignature_analysis", <<>>), "confidence", "none")

\* lines 82-87: the counter a confidence adds to, "" where it adds to none
counter_of(confidence) ==
    IF confidence = "high" THEN "high_confidence"
    ELSE IF confidence = "medium" THEN "medium_confidence"
    ELSE IF confidence = "low" THEN "low_confidence"
    ELSE ""

\* the counter a statement of update_results adds to
incremented(stmt, confidence) ==
    IF stmt = count_measurement THEN "total_measurements"
    ELSE IF stmt = count_confidence THEN counter_of(confidence)
    ELSE ""

increment(stats, key) ==
    IF key = "" THEN stats ELSE [stats EXCEPT ![key] = @ + 1]

\* update_results run from call to return with no other thread looking
update_stats(stats, results) ==
    increment(increment(stats, "total_measurements"),
              counter_of(confidence_of(results)))

(***************************************************************************)
(* analyze_sample, spectrometer_app.py:42-87 and                           *)
(* run_with_dashboard.py:35-63.  The body is a list of statements run in   *)
(* order on an environment of locals and collaborators; a statement that   *)
(* raises ends the run there, and the exception is all the caller gets.    *)
(***************************************************************************)
default_prominence == 100
default_window_length == 11
default_degree == 3

body_logging_first(a) ==
    <<"extract_spectrum", "apply_calibration", "baseline_correction",
      "results", "plotter.update", "logger.log_measurement",
      "smooth_spectrum", "find_peaks", "detect_biosignatures", "return">>

body_peaks_before_smoothing(a) ==
    <<"extract_spectrum", "apply_calibration", "baseline_correction",
      "find_peaks", "smooth_spectrum", "detect_biosignatures", "results",
      "plotter.update", "logger.log_measurement", "return">>

body(a) ==
    IF a = "SpectrometerAppWithDashboard"
    THEN <<"extract_spectrum", "apply_calibration", "baseline_correction",
           "smooth_spectrum", "find_peaks", "detect_biosignatures", "results",
           "plotter.update", "logger.log_measurement",
           "web_dashboard.update_results", "return">>
    ELSE <<"extract_spectrum", "apply_calibration", "baseline_correction",
           "smooth_spectrum", "find_peaks", "detect_biosignatures", "results",
           "plotter.update", "logger.log_measurement", "return">>

\* the result of a call: an exception leaves the method, a value is bound
\* as bound says
bind(env, r, bound) ==
    IF r.raised # NoError
    THEN [env EXCEPT !.raised = r.raised, !.last = None]
    ELSE [bound EXCEPT !.last = r.ret]

\* whether the statement is a call that is made: the plotter and the logger
\* of a SpectrometerApp are called only if they were enabled
calls(stmt, env) ==
    CASE stmt \in {"results", "return"} -> FALSE
      [] stmt = "plotter.update" -> ~IsNone(env.plotter)
      [] stmt = "logger.log_measurement" -> ~IsNone(env.logger)
      [] OTHER -> TRUE

\* the arguments the statement passes, read from the locals
passed(stmt, env) ==
    CASE stmt = "extract_spectrum" -> [image_2d |-> env.image_2d]
      [] stmt = "apply_calibration" -> [spectrum_raw |-> env.spectrum_raw]
      [] stmt = "baseline_correction" -> [spectrum |-> env.spectrum]
      [] stmt = "smooth_spectrum" -> [spectrum |-> env.spectrum_corrected]
      [] stmt = "find_peaks" ->
            [wavelengths |-> env.wavelengths, spectrum |-> env.spectrum_smooth]
      [] stmt = "detect_biosignatures" ->
            [peak_wavelengths |-> env.peak_wl, peak_intensities |-> env.peak_int]
      [] stmt = "plotter.update" ->
            [wavelengths |-> env.wavelengths, spectrum |-> env.spectrum_smooth,
             peaks |-> [peak_wl |-> env.peak_wl, peak_int |-> env.peak_int]]
      [] stmt = "logger.log_measurement" ->
            [measurement_data |-> env.results, sample_id |-> env.sample_id]
      [] stmt = "web_dashboard.update_results" -> [results |-> env.results]
      [] OTHER -> None

\* One statement.  tall picks what the smoothing filter hands back: a
\* spectrum with spikes at the pixels tall.  The fitted baseline is flat at
\* 0; it reaches neither the results nor a collaborator.
exec(stmt, env, tall) ==
    LET a == passed(stmt, env) IN
    CASE stmt = "extract_spectrum" ->
            LET r == extract_spectrum(a.image_2d, "average") IN
            bind(env, r, [env EXCEPT !.spectrum_raw = r.ret.spectrum])
      [] stmt = "apply_calibration" ->
            LET r == apply_calibration(env.maps, env.calibration, a.spectrum_raw) IN
            bind(env, r, [env EXCEPT !.wavelengths = r.ret.wavelengths,
                                      !.spectrum = r.ret.spectrum])
      [] stmt = "baseline_correction" ->
            LET r == baseline_correction(a.spectrum, "polynomial", default_degree,
                         [converged |-> TRUE,
                          curve |-> flat(Len(a.spectrum), 0)]) IN
            bind(env, r, [env EXCEPT !.spectrum_corrected = r.ret.spectrum])
      [] stmt = "smooth_spectrum" ->
            LET r == smooth_spectrum(a.spectrum, default_window_length,
                         [accepts_even |-> TRUE,
                          filtered |->
                              [i \in DOMAIN a.spectrum |->
                                  IF (i - 1) \in tall THEN Num(150) ELSE Num(0)]]) IN
            bind(env, r, [env EXCEPT !.spectrum_smooth = r.ret.spectrum])
      [] stmt = "find_peaks" ->
            LET r == find_peaks(a.wavelengths, a.spectrum, default_prominence) IN
            bind(env, r, [env EXCEPT !.peak_wl = r.ret.peak_wavelengths,
                                      !.peak_int = r.ret.peak_intensities])
      [] stmt = "detect_biosignatures" ->
            LET r == Returns(classify(env.app, a.peak_wavelengths,
                                      a.peak_intensities)) IN
            bind(env, r, [env EXCEPT !.analysis = r.ret])
      [] stmt = "results" ->
            [env EXCEPT !.results =
                [sample_id |-> env.sample_id,
                 peaks_detected |-> Len(env.peak_wl),
                 peak_wavelengths |-> env.peak_wl,
                 wavelengths |-> env.wavelengths,
                 spectrum |-> env.spectrum_smooth,
                 raw_image |-> env.image_2d,
                 biosignature_analysis |-> env.analysis]]
      [] stmt = "plotter.update" ->
            IF ~calls(stmt, env) THEN env
            ELSE [env EXCEPT !.last = None,
                             !.plotter =
                                 plotter_update(env.plotter, a.wavelengths,
                                                a.spectrum, a.peaks)]
      [] stmt = "logger.log_measurement" ->
            IF ~calls(stmt, env) THEN env
            ELSE LET r == log_measurement(env.logger, a.measurement_data,
                                          a.sample_id)
                 IN  [env EXCEPT !.logger = r.logger, !.raised = r.raised,
                                 !.last = r.ret]
      [] stmt = "web_dashboard.update_results" ->
            [env EXCEPT !.last = None,
                        !.latest_results = a.results,
                        !.session_stats = update_stats(env.session_stats, a.results)]
      [] stmt = "return" ->
            [env EXCEPT !.returned = env.results]

\* The statements in order; every call made is noted with what it was
\* passed and what it returned (None if it raised).
RECURSIVE run(_, _, _)
run(stmts, env, tall) ==
    IF stmts = <<>> \/ env.raised # NoError THEN env
    ELSE LET stmt == Head(stmts)
             done == exec(stmt, env, tall)
         IN  run(Tail(stmts),
                 IF calls(stmt, env)
                 THEN [done EXCEPT !.stages =
                          Append(@, [call |-> stmt,
                                     passed |-> passed(stmt, env),
                                     returned |-> done.last])]
                 ELSE done,
                 tall)

(***************************************************************************)
(* Inputs.                                                                 *)
(***************************************************************************)
\* A frame of h rows and w columns; the rows differ, so that the mean, the
\* median and the centre row of a column differ.
frame(h, w) == [r \in 1..h |-> [c \in 1..w |-> r * r * ((c % 3) + 1)]]

Widths == {0, 1, ShortWidth, 20} \cup default_window_length..MaxWidth

Degrees == {1, default_degree}

\* spectrum lengths: the frame widths, Scenario E's 5, the shortest two whose
\* twentieth is odd, and the sensor's 1280
Lengths == Widths \cup {5, 20, 60, 1280}

Frames == {frame(h, w) : h \in 1..MaxHeight, w \in Widths}

Methods == {"average", "median", "center_row", "bogus", "polynomial",
            "rolling_minimum"}

\* load_default_calibration: calibration_points
calibration_points == << <<0, 400>>, <<640, 550>>, <<1279, 700>> >>

AnchorLists ==
    { <<>>,
      calibration_points,
      << <<1, 430>>, <<9, 670>> >>,
      << <<9, 670>>, <<1, 430>> >>,
      << <<1, 430>>, <<1, 520>>, <<9, 670>> >> }

PipelineFrames == {frame(MaxHeight, w) : w \in {0, ShortWidth, default_window_length}}

SampleIds == {"field_sample_1"}

SpikePixels == {1, 4}

RawLengths == {0, 1, ShortWidth, MaxWidth, 1280}

Levels == {0, 50, 100}

\* window lengths: up to polyorder, even, odd, the default, past the default
Windows == {1, polyorder, 4, 5, default_window_length, 12}

\* spectra for peak detection: every profile of up to MaxProfile samples
\* at three heights, flat tops and edges included
Heights == {0, 150, 300}

Profiles == SeqsUpTo({Num(v) : v \in Heights}, MaxProfile)

\* pixel numbers 0..n-1 in place of wavelengths
pixels(n) == [i \in 1..n |-> Num(i - 1)]

(***************************************************************************)
(* Construction.                                                           *)
(***************************************************************************)
Constructed == {"SpectrometerProcessor"} \cup Apps

default_map == interp1d(calibration_points).ret

\* the main thread outside update_results, a server thread with no request
not_updating ==
    [pc |-> 0, results |-> None, confidence |-> "", fetched |-> FALSE, loaded |-> 0]

not_serving == [pc |-> "idle", seen |-> None]

\* nothing handed to a stage, no session logged to, no update under way
BufIdle ==
    /\ memory = <<>>
    /\ input = None
    /\ output = None
    /\ snapshot = <<>>

DashIdle ==
    /\ update = not_updating
    /\ view = not_serving
    /\ completed = <<>>

AuxIdle == BufIdle /\ succeeded = 0 /\ DashIdle

ProcInit ==
    /\ app \in Constructed
    /\ stages = <<>>
    /\ AuxIdle
    /\ IF app = "SpectrometerProcessor"
       THEN maps = <<>> /\ calibration = NoCalibration
       ELSE maps = <<default_map>> /\ calibration = 1
    /\ op = "__init__"
    /\ arg = None
    /\ raised = NoError
    /\ ret = None
    /\ plotter \in IF app = "SpectrometerApp" THEN {None, new_plotter}
                    ELSE IF app = "SpectrometerAppWithDashboard" THEN {new_plotter}
                    ELSE {None}
    /\ logger \in IF app = "SpectrometerApp" THEN {None, new_logger}
                   ELSE IF app = "SpectrometerAppWithDashboard" THEN {new_logger}
                   ELSE {None}
    /\ latest_results = None
    /\ session_stats = new_session_stats

ClassifyIdle ==
    /\ peak_wl = <<>>
    /\ peak_int = <<>>
    /\ analysis = None

Init == ProcInit /\ ClassifyIdle

(***************************************************************************)
(* Calls on the processor.                                                 *)
(***************************************************************************)
Called(name, a, r) ==
    /\ op' = name
    /\ arg' = a
    /\ raised' = r.raised
    /\ ret' = r.ret

install_unbound(r) ==
    IF r.raised # NoError
    THEN UNCHANGED <<maps, calibration>>
    ELSE maps' = Append(maps, r.ret) /\ UNCHANGED calibration

install_in_place(r) ==
    IF r.raised # NoError
    THEN UNCHANGED <<maps, calibration>>
    ELSE IF calibration = NoCalibration
    THEN maps' = Append(maps, r.ret) /\ calibration' = Len(maps) + 1
    ELSE maps' = [maps EXCEPT ![calibration] = r.ret] /\ UNCHANGED calibration

\* self.calibration = interp1d(...): a new object, bound only when the
\* constructor returned
install(r) ==
    IF r.raised # NoError
    THEN UNCHANGED <<maps, calibration>>
    ELSE maps' = Append(maps, r.ret) /\ calibration' = Len(maps) + 1

WavelengthCalibration ==
    \E pairs \in AnchorLists :
        LET r == interp1d(pairs) IN
        /\ Len(maps) < MaxMaps
        /\ install(r)
        /\ Called("wavelength_calibration",
                  [pixel_wavelength_pairs |-> pairs],
                  IF r.raised # NoError THEN r
                  ELSE Returns([calibration |-> Len(maps) + 1]))
        /\ UNCHANGED <<app, outVars, classifyVars, stages, auxVars>>

ApplyCalibration ==
    \E n \in RawLengths :
        /\ app = "SpectrometerProcessor"
        /\ Called("apply_calibration", [spectrum_raw |-> zeros(n)],
                  apply_calibration(maps, calibration, zeros(n)))
        /\ UNCHANGED <<app, procVars, outVars, classifyVars, stages, auxVars>>

ExtractSpectrum ==
    \E image_2d \in Frames, method \in Methods :
        /\ app = "SpectrometerProcessor"
        /\ Called("extract_spectrum",
                  [image_2d |-> image_2d, method |-> method],
                  extract_spectrum(image_2d, method))
        /\ UNCHANGED <<app, procVars, outVars, classifyVars, stages, auxVars>>

BaselineCorrection ==
    \E n \in Lengths, level \in Levels, converged \in BOOLEAN,
       method \in Methods, degree \in Degrees :
        /\ app = "SpectrometerProcessor"
        /\ Called("baseline_correction",
                  [spectrum |-> flat(n, 100), method |-> method,
                   degree |-> degree],
                  baseline_correction(flat(n, 100), method, degree,
                      [converged |-> converged, curve |-> flat(n, level)]))
        /\ UNCHANGED <<app, procVars, outVars, classifyVars, stages, auxVars>>

SmoothSpectrum ==
    \E n \in Lengths, window_length \in Windows, accepts_even \in BOOLEAN :
        /\ app = "SpectrometerProcessor"
        /\ Called("smooth_spectrum",
                  [spectrum |-> flat(n, 100), window_length |-> window_length],
                  smooth_spectrum(flat(n, 100), window_length,
                      [accepts_even |-> accepts_even,
                       filtered |-> flat(n, 100)]))
        /\ UNCHANGED <<app, procVars, outVars, classifyVars, stages, auxVars>>

FindPeaks ==
    \E spectrum \in Profiles :
        /\ app = "SpectrometerProcessor"
        /\ Called("find_peaks",
                  [wavelengths |-> pixels(Len(spectrum)), spectrum |-> spectrum,
                   prominence |-> default_prominence],
                  find_peaks(pixels(Len(spectrum)), spectrum, default_prominence))
        /\ UNCHANGED <<app, procVars, outVars, classifyVars, stages, auxVars>>

\* frames carried through so far, as far as the collaborators remember
Carried ==
    IF ~IsNone(logger) THEN Len(logger.measurements)
    ELSE IF ~IsNone(plotter) THEN Len(plotter.spectrum_history)
    ELSE 0

AnalyzeSample ==
    \E image_2d \in PipelineFrames, sample_id \in SampleIds,
       tall \in SUBSET SpikePixels :
        LET env0 == [app |-> app, maps |-> maps, calibration |-> calibration,
                     image_2d |-> image_2d, sample_id |-> sample_id,
                     raised |-> NoError, returned |-> None,
                     spectrum_raw |-> <<>>, wavelengths |-> <<>>,
                     spectrum |-> <<>>, spectrum_corrected |-> <<>>,
                     spectrum_smooth |-> <<>>, peak_wl |-> <<>>,
                     peak_int |-> <<>>, analysis |-> None, results |-> None,
                     plotter |-> plotter, logger |-> logger,
                     latest_results |-> latest_results,
                     session_stats |-> session_stats, stages |-> <<>>,
                     last |-> None]
        IN  /\ app \in Apps
            /\ \E env \in {run(body(app), env0, tall)} :
                /\ env.raised # NoError \/ Carried < MaxFrames
                /\ Called("analyze_sample",
                          [image_2d |-> image_2d, sample_id |-> sample_id],
                          [raised |-> env.raised, ret |-> env.returned])
                /\ plotter' = env.plotter
                /\ logger' = env.logger
                /\ latest_results' = env.latest_results
                /\ session_stats' = env.session_stats
                /\ stages' = env.stages
                /\ UNCHANGED <<app, procVars, classifyVars, auxVars>>

Next ==
    \/ WavelengthCalibration
    \/ ApplyCalibration
    \/ AnalyzeSample

Spec == Init /\ [][Next]_vars

(***************************************************************************)
(* The stages that keep no state, called on a bare processor.              *)
(***************************************************************************)
StagesInit == Init /\ app = "SpectrometerProcessor"

StagesNext ==
    \/ ExtractSpectrum
    \/ BaselineCorrection
    \/ SmoothSpectrum
    \/ FindPeaks

SpecStages == StagesInit /\ [][StagesNext]_vars

(***************************************************************************)
(* The stages as they handle array storage.  A numpy array is a window on  *)
(* a buffer: the whole of it, or one row of a 2-D one.  SpecBuffers hands  *)
(* arrays to extract_spectrum and apply_calibration and then writes        *)
(* through the array that was handed in.                                   *)
(***************************************************************************)
whole(buffer) == [buffer |-> buffer, row |-> 0]

row_of(buffer, r) == [buffer |-> buffer, row |-> r]

\* the samples seen through array a
value(mem, a) ==
    LET b == mem[a.buffer] IN
    IF b.ndim = 1 \/ a.row = 0 THEN b.data
    ELSE [c \in DOMAIN b.data[a.row] |-> Num(b.data[a.row][c])]

\* a[r, c] = v (a[c] = v on a 1-D array or a row)
write(mem, a, r, c, v) ==
    LET b == mem[a.buffer] IN
    IF b.ndim = 1
    THEN [mem EXCEPT ![a.buffer].data[c] = Num(v)]
    ELSE IF a.row = 0
    THEN [mem EXCEPT ![a.buffer].data[r][c] = v]
    ELSE [mem EXCEPT ![a.buffer].data[a.row][c] = v]

\* extract_spectrum on arrays: np.mean and np.median build a new array,
\* image_2d[center_row, :] is a view of image_2d
extract_spectrum_array(mem, image_2d, method) ==
    LET r == extract_spectrum(value(mem, image_2d), method) IN
    IF r.raised # NoError
    THEN [raised |-> r.raised, memory |-> mem, spectrum |-> None]
    ELSE IF method = "center_row"
    THEN [raised |-> NoError, memory |-> mem,
          spectrum |-> row_of(image_2d.buffer,
                              (Len(mem[image_2d.buffer].data) \div 2) + 1)]
    ELSE [raised |-> NoError,
          memory |-> Append(mem, [ndim |-> 1, data |-> r.ret.spectrum]),
          spectrum |-> whole(Len(mem) + 1)]

\* apply_calibration on arrays: self.calibration(pixels) is a new array,
\* the second value returned is spectrum_raw itself
apply_calibration_array(mem, heap, cal, spectrum_raw) ==
    LET r == apply_calibration(heap, cal, value(mem, spectrum_raw)) IN
    IF r.raised # NoError
    THEN [raised |-> r.raised, memory |-> mem, wavelengths |-> None,
          spectrum |-> None]
    ELSE [raised |-> NoError,
          memory |-> Append(mem, [ndim |-> 1, data |-> r.ret.wavelengths]),
          wavelengths |-> whole(Len(mem) + 1),
          spectrum |-> spectrum_raw]

BufferFrames == {frame(h, ShortWidth) : h \in 1..MaxHeight}

ArrayMethods == {"average", "median", "center_row"}

\* what is written through an array later on, and where
Scribble == 99

WriteColumns == {1}

Handed(name, a, r, returned) ==
    /\ op' = name
    /\ arg' = a
    /\ raised' = r.raised
    /\ ret' = IF r.raised # NoError THEN None ELSE returned
    /\ memory' = r.memory
    /\ output' = r.spectrum
    /\ snapshot' = IF r.raised # NoError THEN <<>>
                   ELSE value(r.memory, r.spectrum)

\* a caller captures a frame and has its spectrum extracted
ExtractArray ==
    \E image_2d \in BufferFrames, method \in ArrayMethods :
        LET held  == Append(memory, [ndim |-> 2, data |-> image_2d])
            frame_array == whole(Len(memory) + 1)
            r     == extract_spectrum_array(held, frame_array, method)
        IN  /\ Len(memory) + 2 <= MaxBuffers
            /\ input' = frame_array
            /\ Handed("extract_spectrum",
                      [image_2d |-> image_2d, method |-> method], r,
                      [spectrum |-> r.spectrum])
            /\ UNCHANGED <<app, procVars, outVars, classifyVars, stages,
                           succeeded, dashVars>>

\* the spectrum just extracted is calibrated, as in analyze_sample
ApplyArray ==
    LET r == apply_calibration_array(memory, maps, calibration, output) IN
    /\ op = "extract_spectrum"
    /\ ~IsNone(output)
    /\ Len(memory) + 1 <= MaxBuffers
    /\ input' = output
    /\ Handed("apply_calibration", [spectrum_raw |-> value(memory, output)], r,
              [wavelengths |-> r.wavelengths, spectrum |-> r.spectrum])
    /\ UNCHANGED <<app, procVars, outVars, classifyVars, stages, succeeded,
                   dashVars>>

\* a later write through the array that was handed in
WriteInput ==
    \E r \in 1..MaxHeight, c \in WriteColumns :
        /\ ~IsNone(input)
        /\ memory[input.buffer].ndim = 2 /\ input.row = 0
               => r <= Len(memory[input.buffer].data)
        /\ memory' = write(memory, input, r, c, Scribble)
        /\ UNCHANGED <<app, procVars, callVars, outVars, classifyVars, stages,
                       input, output, snapshot, succeeded, dashVars>>

BuffersNext ==
    \/ ExtractArray
    \/ ApplyArray
    \/ WriteInput

SpecBuffers == Init /\ [][BuffersNext]_vars

(***************************************************************************)
(* A SpectroscopyLogger on its own: one session, logged to, annotated and  *)
(* closed in any order.                                                    *)
(***************************************************************************)
MeasurementData ==
    { [peaks_detected |-> 2, biosignature_analysis |-> [confidence |-> "high"],
       wavelengths |-> <<Num(400)>>, spectrum |-> <<Num(0)>>],
      [peaks_detected |-> 0, biosignature_analysis |-> [confidence |-> "none"]],
      [peaks_detected |-> 1,
       biosignature_analysis |-> [confidence |-> "low", numpy |-> TRUE]] }

LoggedIds == {"None", "field_sample_1"} \cup Nested

Notes == {"calibration check"}

LoggerInit ==
    /\ app = "SpectroscopyLogger"
    /\ maps = <<>>
    /\ calibration = NoCalibration
    /\ op = "__init__"
    /\ arg = None
    /\ raised = NoError
    /\ ret = None
    /\ plotter = None
    /\ logger = new_logger
    /\ latest_results = None
    /\ session_stats = new_session_stats
    /\ stages = <<>>
    /\ AuxIdle
    /\ ClassifyIdle

LoggerCalled(name, a, r) ==
    /\ Called(name, a, r)
    /\ logger' = r.logger
    /\ UNCHANGED <<app, procVars, plotter, latest_results, session_stats,
                   classifyVars, stages, bufVars, dashVars>>

LogMeasurement ==
    \E measurement_data \in MeasurementData, sample_id \in LoggedIds :
        LET r == log_measurement(logger, measurement_data, sample_id) IN
        /\ Len(logger.measurements) < MaxLogged
        /\ LoggerCalled("log_measurement",
                        [measurement_data |-> measurement_data,
                         sample_id |-> sample_id], r)
        /\ succeeded' = IF r.raised = NoError THEN succeeded + 1 ELSE succeeded

AddNote ==
    \E note \in Notes :
        /\ Len(logger.notes) < MaxNotes
        /\ LoggerCalled("add_note", [note |-> note], add_note(logger, note))
        /\ UNCHANGED succeeded

EndSession ==
    /\ LoggerCalled("end_session", None, end_session(logger))
    /\ UNCHANGED succeeded

LoggerNext ==
    \/ LogMeasurement
    \/ AddNote
    \/ EndSession

SpecLogger == LoggerInit /\ [][LoggerNext]_vars

(***************************************************************************)
(* The classifier on its own: SpecClassify draws a peak list and applies   *)
(* detect_biosignatures to it.                                             *)
(***************************************************************************)
WindowBounds == {400, 425, 435, 450, 550, 655, 665}

JustAbove(b) == [n |-> b * ProbeDen + 1, d |-> ProbeDen]
JustBelow(b) == [n |-> b * ProbeDen - 1, d |-> ProbeDen]

ProbeWavelengths ==
    {Num(b) : b \in WindowBounds}
        \cup {JustAbove(b) : b \in {400, 425, 450, 655}}
        \cup {JustBelow(b) : b \in {435, 450, 550, 665}}
        \cup {Num(430), Num(500), Num(700), NaN}

ProbeIntensities == {Num(0), Num(150)}

ClassifyInit ==
    /\ ProcInit
    /\ app \in Apps
    /\ peak_wl \in SeqsUpTo(ProbeWavelengths, MaxPeaks)
    /\ \E v \in ProbeIntensities : peak_int = [i \in DOMAIN peak_wl |-> v]
    /\ analysis = None

Classify ==
    /\ IsNone(analysis)
    /\ analysis' = classify(app, peak_wl, peak_int)
    /\ UNCHANGED <<app, procVars, callVars, outVars, peak_wl, peak_int, stages,
                 auxVars>>

ClassifyNext == Classify

SpecClassify == ClassifyInit /\ [][ClassifyNext]_vars

-----------------------------------------------------------------------------
(***************************************************************************)
(* Claims about the classifier.                                            *)
(***************************************************************************)
InWindow(lo, hi, p) == p.d > 0 /\ lo * p.d < p.n /\ p.n < hi * p.d

Classified == ~IsNone(analysis)

\* C1: chlorophyll is set exactly when some peak lies strictly between 425
\* and 435 or strictly between 655 and 665, carotenoids exactly when some
\* peak lies strictly between 450 and 550, organics exactly when some peak
\* lies strictly between 400 and 450; a peak on a bound sets no flag through
\* that window and a peak just inside it does.
C1_Windows ==
    Classified =>
        /\ analysis.chlorophyll =
              (\E i \in DOMAIN peak_wl :
                   InWindow(425, 435, peak_wl[i]) \/ InWindow(655, 665, peak_wl[i]))
        /\ analysis.carotenoids =
              (\E i \in DOMAIN peak_wl : InWindow(450, 550, peak_wl[i]))
        /\ analysis.organics =
              (\E i \in DOMAIN peak_wl : InWindow(400, 450, peak_wl[i]))
        /\ (Range(peak_wl) \subseteq {Num(425), Num(435), Num(655), Num(665)}
               => ~analysis.chlorophyll)
        /\ (Range(peak_wl) \subseteq {Num(450), Num(550)}
               => ~analysis.carotenoids)
        /\ (Range(peak_wl) \subseteq {Num(400), Num(450)}
               => ~analysis.organics)
        /\ (Range(peak_wl) \cap {JustAbove(425), JustBelow(435),
                                 JustAbove(655), JustBelow(665)} # {}
               => analysis.chlorophyll)
        /\ (Range(peak_wl) \cap {JustAbove(450), JustBelow(550)} # {}
               => analysis.carotenoids)
        /\ (Range(peak_wl) \cap {JustAbove(400), JustBelow(450)} # {}
               => analysis.organics)

\* A peak exactly on 425 together with one just inside 655..665 has been
\* classified.
C1_Witness ==
    /\ Classified
    /\ peak_wl = <<Num(425), JustAbove(655)>>
    /\ analysis.chlorophyll

\* C2: the confidence and its interpretation are fixed by the number of true
\* flags: 0 none, 1 low, 2 medium, 3 high, each with its own sentence, and
\* no other value or pairing is produced.
ConfidenceTable ==
    <<  <<"none", "No biosignatures detected">>,
        <<"low", "Weak biosignature detected">>,
        <<"medium", "Multiple biosignatures detected">>,
        <<"high", "Strong biosignature pattern detected">>  >>

TrueFlags(r) ==
    Cardinality({f \in {"chlorophyll", "carotenoids", "organics"} : r[f]})

C2_Confidence ==
    Classified =>
        <<analysis.confidence, analysis.interpretation>>
            = ConfidenceTable[TrueFlags(analysis) + 1]

\* A result with exactly two flags has been produced.
C2_Witness == Classified /\ TrueFlags(analysis) = 2

\* C3 (as claimed): the peaks [430, 500] give chlorophyll and carotenoids but
\* not organics, hence confidence medium, "Multiple biosignatures detected".
ScenarioB == Classified /\ peak_wl = <<Num(430), Num(500)>>

C3_Original ==
    ScenarioB =>
        analysis = [chlorophyll    |-> TRUE,
                    carotenoids    |-> TRUE,
                    organics       |-> FALSE,
                    confidence     |-> "medium",
                    interpretation |-> "Multiple biosignatures detected"]

\* C3 (amended): the peaks [430, 500] set all three flags, 430 lying inside
\* the organics window 400..450 too, hence three indicators, confidence high
\* and "Strong biosignature pattern detected".
C3_Amended ==
    ScenarioB =>
        analysis = [chlorophyll    |-> TRUE,
                    carotenoids    |-> TRUE,
                    organics       |-> TRUE,
                    confidence     |-> "high",
                    interpretation |-> "Strong biosignature pattern detected"]

C3_Witness == ScenarioB /\ app = "SpectrometerApp"

\* C4: the result depends only on the set of peak wavelengths: every list
\* with the same set of values (a permutation, or one with values repeated)
\* and every list of intensities gives the same flags, confidence and
\* interpretation.
SameSetLists(ps) ==
    {q \in SeqsUpTo(Range(ps), MaxPeaks + 1) : Range(q) = Range(ps)}

C4_SetOnly ==
    Classified =>
        \A q \in SameSetLists(peak_wl) :
            \A v \in ProbeIntensities :
                classify(app, q, [i \in DOMAIN q |-> v]) = analysis

\* Two different peaks were classified and the second alone decides
\* chlorophyll.
C4_Witness ==
    /\ Classified
    /\ Len(peak_wl) = 2
    /\ peak_wl[1] # peak_wl[2]
    /\ analysis.chlorophyll
    /\ ~InWindow(425, 435, peak_wl[1])
    /\ ~InWindow(655, 665, peak_wl[1])


-----------------------------------------------------------------------------
(***************************************************************************)
(* Claims about the calibration.                                           *)
(***************************************************************************)
StrictlyIncreasing(x) == \A i \in 1..(Len(x) - 1) : x[i] < x[i + 1]

Pixels(pairs) == [i \in DOMAIN pairs |-> pairs[i][1]]

WellFormed(pairs) == Len(pairs) >= 2 /\ StrictlyIncreasing(Pixels(pairs))

\* C7 (as claimed): wavelength_calibration rejects every anchor list that has
\* fewer than 2 anchors, a repeated pixel or a decreasing pixel.
C7_RejectsMalformed ==
    (op = "wavelength_calibration" /\ ~WellFormed(arg.pixel_wavelength_pairs))
        => raised # NoError

\* C8: with a map of at least 2 anchors at strictly increasing pixels,
\* apply_calibration gives every pixel 0..len-1 a wavelength: the anchor's
\* own at an anchor pixel, the straight line between the two surrounding
\* anchors in between, and the straight line of the nearest end segment
\* outside the anchors; the default anchors give 400, 550 and 700 at pixels
\* 0, 640 and 1279.
OnLine(f, k, pixel, w) ==
    /\ w.d > 0
    /\ (w.n - f.y[k] * w.d) * (f.x[k + 1] - f.x[k])
           = (f.y[k + 1] - f.y[k]) * (pixel - f.x[k]) * w.d

Expected(f, pixel, w) ==
    LET n == Len(f.x) IN
    /\ \A k \in 1..n : f.x[k] = pixel => w = Num(f.y[k])
    /\ \A k \in 1..(n - 1) :
           (f.x[k] <= pixel /\ pixel <= f.x[k + 1]) => OnLine(f, k, pixel, w)
    /\ pixel < f.x[1] => OnLine(f, 1, pixel, w)
    /\ pixel > f.x[n] => OnLine(f, n - 1, pixel, w)

Applied == op = "apply_calibration" /\ raised = NoError

C8_PiecewiseLinear ==
    /\ (op = "apply_calibration" /\ calibration # NoCalibration
            /\ Len(maps[calibration].x) >= 2
            /\ StrictlyIncreasing(maps[calibration].x))
        => /\ raised = NoError
           /\ DOMAIN ret.wavelengths = DOMAIN arg.spectrum_raw
           /\ \A i \in DOMAIN ret.wavelengths :
                  Expected(maps[calibration], i - 1, ret.wavelengths[i])
    /\ (Applied /\ maps[calibration] = default_map
            /\ Len(arg.spectrum_raw) = 1280)
        => /\ ret.wavelengths[1] = Num(400)
           /\ ret.wavelengths[641] = Num(550)
           /\ ret.wavelengths[1280] = Num(700)

\* A 1280-pixel spectrum was calibrated with anchors (1,430),(9,670), which
\* leave pixels on both sides of the anchors.
C8_Witness ==
    /\ Applied
    /\ maps[calibration].x = <<1, 9>>
    /\ Len(arg.spectrum_raw) = 1280
    /\ ret.wavelengths[1] = Num(400)

\* C9: an interp1d object, once built, never changes; only a completed
\* wavelength_calibration rebinds processor.calibration, and it binds it to
\* a newly built object.
C9_NeverMutated ==
    [][ /\ Len(maps') >= Len(maps)
        /\ \A i \in DOMAIN maps : maps'[i] = maps[i]
        /\ (op' # "wavelength_calibration" \/ raised' # NoError)
               => (calibration' = calibration /\ maps' = maps)
        /\ calibration' # calibration
               => (calibration' = Len(maps) + 1 /\ Len(maps') = Len(maps) + 1)
      ]_vars

\* A second map is installed and the first one still holds its own anchors.
C9_Witness ==
    /\ calibration = 2
    /\ maps[1] # maps[2]
    /\ app \in Apps
    /\ maps[1] = default_map

\* C10: extract_spectrum with a method other than average, median and
\* center_row raises the unknown-method error and returns nothing;
\* baseline_correction with a method other than polynomial and
\* rolling_minimum raises its unknown-method error and returns nothing.
C10_UnknownMethod ==
    /\ (op = "extract_spectrum"
            /\ arg.method \notin {"average", "median", "center_row"})
        => (raised = "ValueError: Unknown method" /\ IsNone(ret))
    /\ (op = "baseline_correction"
            /\ arg.method \notin {"polynomial", "rolling_minimum"})
        => (raised = "ValueError: Unknown baseline method" /\ IsNone(ret))

\* extract_spectrum was called with method "bogus".
C10_Witness ==
    /\ op = "extract_spectrum"
    /\ arg.method = "bogus"
    /\ raised = "ValueError: Unknown method"


-----------------------------------------------------------------------------
(***************************************************************************)
(* Claims about the applications.                                          *)
(***************************************************************************)
\* C5: a frame whose pipeline raises leaves no trace: the plotter, the
\* session log, the dashboard's latest result and its counters are as they
\* were before the call, and analyze_sample returns no results bundle.
C5_NoTrace ==
    [][ (op' = "analyze_sample" /\ raised' # NoError)
            => /\ plotter' = plotter
               /\ logger' = logger
               /\ latest_results' = latest_results
               /\ session_stats' = session_stats
               /\ IsNone(ret')
      ]_vars

\* A frame too narrow for the smoothing window was refused after another
\* frame had been logged and counted.
C5_Witness ==
    /\ op = "analyze_sample"
    /\ raised = "ValueError: window_length must be less than or equal to the size of x"
    /\ app = "SpectrometerAppWithDashboard"
    /\ Len(logger.measurements) = 1
    /\ session_stats.total_measurements = 1

\* Every completed wavelength_calibration builds one interp1d object.
CompletedCalibrations == Len(maps)

\* C6: apply_calibration raises the no-calibration error exactly when no
\* wavelength_calibration call has completed, and succeeds once one has; an
\* application has the default calibration from construction on, so
\* analyze_sample never meets the no-calibration error.

C6_NotCalibrated ==
    /\ op = "apply_calibration"
        => /\ (raised = "ValueError: No calibration loaded")
                  <=> (CompletedCalibrations = 0)
           /\ (raised = NoError) <=> (CompletedCalibrations > 0)
    /\ app \in Apps
        => /\ calibration # NoCalibration
           /\ maps[1] = default_map
    /\ op = "analyze_sample" => raised # "ValueError: No calibration loaded"

\* On a bare processor apply_calibration succeeded after a calibration.
C6_Witness ==
    /\ app = "SpectrometerProcessor"
    /\ op = "apply_calibration"
    /\ raised = NoError
    /\ CompletedCalibrations = 1


-----------------------------------------------------------------------------
(***************************************************************************)
(* Claims about baseline correction, smoothing and peak detection.         *)
(***************************************************************************)
PolynomialCall == op = "baseline_correction" /\ arg.method = "polynomial"

\* C11 (as claimed): baseline_correction with method polynomial fails
\* whenever the degree is at least the spectrum length, and fits and
\* subtracts only when the degree is below it.
C11_DegreeValidated ==
    PolynomialCall
        => ((arg.degree >= Len(arg.spectrum)) <=> (raised # NoError))

ScenarioE == PolynomialCall /\ arg.degree = 3 /\ Len(arg.spectrum) = 5

\* C12 (as claimed): polynomial baseline correction of degree 3 on a
\* spectrum of length 5 fails.
C12_Original == ScenarioE => raised # NoError

\* C12 (amended): polynomial baseline correction of degree 3 on a spectrum
\* of length 5 does not fail: it returns a corrected spectrum of 5 samples,
\* each the sample less the fitted curve there.
C12_Amended ==
    ScenarioE
        => /\ raised = NoError
           /\ Len(ret.spectrum) = 5
           /\ \E level \in Levels :
                  \A i \in 1..5 :
                      ret.spectrum[i] = Minus(arg.spectrum[i], Num(level))

\* Scenario E was run and returned.
C12_Witness == ScenarioE /\ raised = NoError /\ ~IsNone(ret)

RollingCall == op = "baseline_correction" /\ arg.method = "rolling_minimum"

\* C13 (as claimed): baseline_correction with method rolling_minimum never
\* fails on a spectrum of one sample or more: the window is floor(N/20)
\* raised to at least 1 and made odd.
C13_WindowClamped ==
    (RollingCall /\ Len(arg.spectrum) >= 1) => raised = NoError

SmoothCall == op = "smooth_spectrum"

\* C14 (as claimed): smooth_spectrum fails for every window length that is
\* even or longer than the spectrum, and succeeds for every odd window
\* length that is not longer than the spectrum.
C14_WindowValidated ==
    SmoothCall
        => ((arg.window_length % 2 = 0
                 \/ arg.window_length > Len(arg.spectrum))
               <=> (raised # NoError))

\* the pixel that reported peak k sits on
PeakPixel(k) == ret.peak_wavelengths[k].n

\* C15 (as claimed): find_peaks never fails, and every pixel it reports is
\* neither the first nor the last and is strictly higher than both its
\* neighbours, so no sample of a flat top is reported.
C15_StrictPeaks ==
    op = "find_peaks"
        => /\ raised = NoError
           /\ \A k \in DOMAIN ret.peak_wavelengths :
                  LET i == PeakPixel(k) + 1 IN
                  /\ 1 < i
                  /\ i < Len(arg.spectrum)
                  /\ Lt(arg.spectrum[i - 1], arg.spectrum[i])
                  /\ Lt(arg.spectrum[i + 1], arg.spectrum[i])


-----------------------------------------------------------------------------
(***************************************************************************)
(* Claims about array storage.                                             *)
(***************************************************************************)
\* C16 (as claimed): the array a stage returns shares no buffer with the
\* array it was handed, so after any later write through the array handed
\* in, the returned array still holds what it held when it was returned.
C16_NoAliasing ==
    ~IsNone(output)
        => /\ output.buffer # input.buffer
           /\ value(memory, output) = snapshot


-----------------------------------------------------------------------------
(***************************************************************************)
(* Claims about the logger.                                                *)
(***************************************************************************)
Logged == op = "log_measurement" /\ raised = NoError

\* C17: in one logger session the k-th log_measurement that returns,
\* returns k and stores a record with measurement_id k; the ids in the
\* session log are 1..n in order; add_note and end_session leave the
\* measurement list as it was.
C17_SequentialIds ==
    /\ [](\A i \in DOMAIN logger.measurements :
              logger.measurements[i].measurement_id = i)
    /\ [](Logged
            => /\ ret.measurement_id = succeeded
               /\ succeeded \in DOMAIN logger.measurements
               /\ logger.measurements[succeeded].measurement_id = succeeded)
    /\ [][op' \in {"add_note", "end_session"}
            => logger'.measurements = logger.measurements]_vars

\* The second record was logged after a note was added and the session
\* closed.
C17_Witness ==
    /\ Logged
    /\ succeeded = 2
    /\ logger.has_notes
    /\ logger.ended
    /\ Len(logger.measurements) = 2


-----------------------------------------------------------------------------
(***************************************************************************)
(* Claims about the order of the pipeline.                                 *)
(***************************************************************************)
StageOrder ==
    <<"extract_spectrum", "apply_calibration", "baseline_correction",
      "smooth_spectrum", "find_peaks", "detect_biosignatures">>

Collaborators ==
    {"plotter.update", "logger.log_measurement", "web_dashboard.update_results"}

\* call k was made and returned
Returned(k) == k \in DOMAIN stages /\ ~IsNone(stages[k].returned)

\* C18: analyze_sample calls extract_spectrum, apply_calibration,
\* baseline_correction, smooth_spectrum, find_peaks and
\* detect_biosignatures in this order, none skipped, repeated or out of
\* place, each on what the stage before returned; the plotter, the logger
\* and the dashboard are called only after detect_biosignatures returned.
C18_FixedOrder ==
    op = "analyze_sample"
        => /\ \A k \in DOMAIN stages :
                  IF k <= Len(StageOrder)
                  THEN stages[k].call = StageOrder[k]
                  ELSE stages[k].call \in Collaborators /\ Returned(6)
           /\ \A j, k \in DOMAIN stages : stages[j].call = stages[k].call => j = k
           /\ \A k \in 1..(Len(stages) - 1) :
                  k <= Len(StageOrder) => Returned(k)
           /\ raised = NoError => Len(stages) >= Len(StageOrder)
           /\ Returned(1) /\ 2 \in DOMAIN stages
                  => stages[2].passed.spectrum_raw = stages[1].returned.spectrum
           /\ Returned(2) /\ 3 \in DOMAIN stages
                  => stages[3].passed.spectrum = stages[2].returned.spectrum
           /\ Returned(3) /\ 4 \in DOMAIN stages
                  => stages[4].passed.spectrum = stages[3].returned.spectrum
           /\ Returned(4) /\ 5 \in DOMAIN stages
                  => /\ stages[5].passed.spectrum = stages[4].returned.spectrum
                     /\ stages[5].passed.wavelengths
                            = stages[2].returned.wavelengths
           /\ Returned(5) /\ 6 \in DOMAIN stages
                  => stages[6].passed.peak_wavelengths
                         = stages[5].returned.peak_wavelengths

\* A frame went through all six stages of the dashboard application and
\* on to the plotter, the logger and the dashboard; its two peaks were
\* classified.
C18_Witness ==
    /\ op = "analyze_sample"
    /\ raised = NoError
    /\ app = "SpectrometerAppWithDashboard"
    /\ Len(stages) = 9
    /\ Len(stages[6].passed.peak_wavelengths) = 2

(***************************************************************************)
(* The dashboard's shared state under two threads, SpecDashboard.  The     *)
(* main thread runs update_results (web_dashboard.py:74-87) a statement at *)
(* a time, an augmented assignment as a fetch and a store; the server      *)
(* thread started in run_with_dashboard.py:21-26 answers /api/stats        *)
(* (web_dashboard.py:40-43) between any two of those steps.  jsonify lists *)
(* the items of session_stats in one step and encodes that listing.        *)
(***************************************************************************)
Confidences == {"high", "medium", "low", "none"}

\* what analyze_sample hands over, and dicts lacking the keys line 81 reads
DashboardResults ==
    {[peaks_detected |-> 1, biosignature_analysis |-> [confidence |-> c]] :
        c \in Confidences}
    \cup {[peaks_detected |-> 0,
           biosignature_analysis |-> [interpretation |-> "No biosignatures detected"]],
          [peaks_detected |-> 0]}

DashboardInit == Init /\ app = "SpectrometerAppWithDashboard"

DashboardFrame ==
    UNCHANGED <<app, procVars, plotter, logger, classifyVars, stages, bufVars,
                succeeded>>

\* run_with_dashboard.py:61: the main thread enters update_results
UpdateResults ==
    \E results \in DashboardResults :
        /\ update.pc = 0
        /\ Len(completed) < MaxUpdates
        /\ update' = [not_updating EXCEPT !.pc = 1, !.results = results]
        /\ DashboardFrame
        /\ UNCHANGED <<callVars, latest_results, session_stats, view, completed>>

\* one step of the statement the main thread stands at
UpdateStep ==
    /\ update.pc \in DOMAIN update_results_body
    /\ LET stmt == update_results_body[update.pc]
           key == incremented(stmt, update.confidence)
           next == [update EXCEPT !.pc = @ + 1, !.fetched = FALSE]
       IN  IF stmt = store_latest
           THEN /\ latest_results' = update.results
                /\ update' = next
                /\ UNCHANGED session_stats
           ELSE IF stmt = read_confidence
           THEN /\ update' = [next EXCEPT !.confidence = confidence_of(update.results)]
                /\ UNCHANGED <<latest_results, session_stats>>
           ELSE IF key = ""
           THEN /\ update' = next
                /\ UNCHANGED <<latest_results, session_stats>>
           ELSE IF ~update.fetched
           THEN /\ update' = [update EXCEPT !.fetched = TRUE,
                                            !.loaded = session_stats[key]]
                /\ UNCHANGED <<latest_results, session_stats>>
           ELSE /\ session_stats' = [session_stats EXCEPT ![key] = update.loaded + 1]
                /\ update' = next
                /\ UNCHANGED latest_results
    /\ DashboardFrame
    /\ UNCHANGED <<callVars, view, completed>>

\* update_results falls off its end
UpdateReturn ==
    /\ update.pc = Len(update_results_body) + 1
    /\ Called("update_results", [results |-> update.results], Returns(None))
    /\ completed' = Append(completed, update.results)
    /\ update' = not_updating
    /\ DashboardFrame
    /\ UNCHANGED <<latest_results, session_stats, view>>

\* get_stats: jsonify takes the items of session_stats
GetStats ==
    /\ view.pc = "idle"
    /\ view' = [pc |-> "encoding", seen |-> session_stats]
    /\ DashboardFrame
    /\ UNCHANGED <<callVars, latest_results, session_stats, update, completed>>

\* the response leaves the server thread
Respond ==
    /\ view.pc = "encoding"
    /\ view' = not_serving
    /\ DashboardFrame
    /\ UNCHANGED <<callVars, latest_results, session_stats, update, completed>>

DashboardNext ==
    \/ UpdateResults
    \/ UpdateStep
    \/ UpdateReturn
    \/ GetStats
    \/ Respond

SpecDashboard == DashboardInit /\ [][DashboardNext]_vars

WithConfidence(stats) ==
    stats.high_confidence + stats.medium_confidence + stats.low_confidence

NoneOrMissing(results) ==
    \/ "biosignature_analysis" \notin DOMAIN results
    \/ "confidence" \notin DOMAIN results.biosignature_analysis
    \/ results.biosignature_analysis.confidence = "none"

WithoutConfidence ==
    Cardinality({k \in DOMAIN completed : NoneOrMissing(completed[k])})

\* C19: whatever /api/stats can observe, midway through an update_results
\* included, has high + medium + low <= total; with no update_results under
\* way the total is the number of calls and total - (high + medium + low) is
\* the number of results whose confidence was 'none' or missing; and no
\* counter ever decreases.
C19_CountersConsistent ==
    /\ [](/\ WithConfidence(session_stats) <= session_stats.total_measurements
          /\ ~IsNone(view.seen) =>
                WithConfidence(view.seen) <= view.seen.total_measurements)
    /\ [](update.pc = 0 =>
            /\ session_stats.total_measurements = Len(completed)
            /\ session_stats.total_measurements - WithConfidence(session_stats)
                   = WithoutConfidence)
    /\ [][\A key \in DOMAIN session_stats :
              session_stats'[key] >= session_stats[key]]_vars

\* a reader holds the counters taken between the two additions of a second,
\* high-confidence update, after a first update that classified nothing
C19_Witness ==
    /\ Len(completed) = 1
    /\ NoneOrMissing(completed[1])
    /\ update.pc = 4
    /\ update.confidence = "high"
    /\ ~IsNone(view.seen)
    /\ view.seen.total_measurements = 2
    /\ WithConfidence(view.seen) = 0

=============================================================================
